---- MODULE Spec2Model ----
(***************************************************************************)
(* Operation lifecycle of the Generic Data Importer backend:               *)
(*   OperationsStore    src/src/operations/operations.store.ts             *)
(*   OperationsManager  src/unnamed/part_006 (operations.manager.ts)       *)
(*   OperationsController src/unnamed/part_006 (operations.controller.ts)  *)
(*   ExtractionWorker   src/src/workers/extraction.worker.ts               *)
(*   ExtractorService   src/src/extraction/extractor.service.spec.ts       *)
(*                      (the service source starts at line 225)            *)
(* Node runs one callback at a time: each action below is the code that    *)
(* runs between two awaits (or one whole synchronous request handler).     *)
(* Time is counted in minutes.                                             *)
(***************************************************************************)
EXTENDS Integers, Sequences, FiniteSets, TLC

\* ------------------------------------------------------------------ bounds
MaxTime == 93
TickStep == 31
MaxRows == 2
MaxSampleRows == 55
MaxChunkRows == 12
MaxApplications == 1

\* operation ids are uuids; operations only meet in the store, keyed by id
OpIds == {"op_a"}
TokenEstimates == {4000, 4001, 8001}

\* --------------------------------------------------------------- constants
TOKEN_THRESHOLD == 4000
SAMPLE_THRESHOLD == 50
MAX_SAMPLE_SIZE == 30
\* OPERATION_TTL_MS in minutes: 30 * 60 * 1000 ms is 30, 24 * 60 * 60 * 1000 ms
\* is 1440
TTL_PENDING == 30
TTL_PROCESSING == 60
TTL_COMPLETED == 1440
TTL_FAILED == 1440
TTL_CANCELLED == 60

OPERATION_TTL_MS(status) ==
  CASE status = "pending" -> TTL_PENDING
    [] status = "processing" -> TTL_PROCESSING
    [] status = "completed" -> TTL_COMPLETED
    [] status = "failed" -> TTL_FAILED
    [] status = "cancelled" -> TTL_CANCELLED

Statuses == {"pending", "processing", "completed", "failed", "cancelled"}
TerminalStatuses == {"completed", "failed", "cancelled"}

\* an optional Date that was never assigned
NoTime == -1
\* an optional object field that was never assigned
Undefined == [undefined |-> TRUE]
\* 35 + Math.round((rowsProcessed / 0) * 50) is NaN
NaN == -2

\* call: the unit under exercise in the specifications that apply one
\* service function to drawn inputs (its input, position and output)
VARIABLES now, store, created, worker, hist, response, call
vars == <<now, store, created, worker, hist, response, call>>

\* ------------------------------------------------------------------- store
has(s, id) == id \in DOMAIN s

storeCreate(s, op) == [k \in DOMAIN s \cup {op.operationId} |->
                         IF k = op.operationId THEN op ELSE s[k]]

\* Object.assign(op, updates): the fields named in updates are overwritten
Assign(op, updates) == [f \in DOMAIN op |->
                          IF f \in DOMAIN updates THEN updates[f] ELSE op[f]]

storeUpdate(s, id, updates) ==
  IF has(s, id) THEN [s EXCEPT ![id] = Assign(@, updates)] ELSE s

storeDelete(s, id) == [k \in DOMAIN s \ {id} |-> s[k]]

\* mutant: the sweep spares operations that are still being processed
Expired_SpareProcessing(op, t) ==
  op.status # "processing" /\ t - op.createdAt > OPERATION_TTL_MS(op.status)

\* mutant: a record is evicted as soon as its age reaches the TTL
Expired_Inclusive(op, t) == t - op.createdAt >= OPERATION_TTL_MS(op.status)

Expired(op, t) == t - op.createdAt > OPERATION_TTL_MS(op.status)

cleanupExpired(s, t) == [k \in {j \in DOMAIN s : ~Expired(s[j], t)} |-> s[k]]

cleanedCount(s, t) == Cardinality({j \in DOMAIN s : Expired(s[j], t)})

\* ----------------------------------------------------------------- manager
\* every manager call yields the store after it and what it threw
Ok(s) == [threw |-> "none", store |-> s]
Threw(what, s) == [threw |-> what, store |-> s]

NewOperation(id, t) ==
  [operationId |-> id, status |-> "pending", createdAt |-> t,
   startedAt |-> NoTime, completedAt |-> NoTime, failedAt |-> NoTime,
   cancelledAt |-> NoTime, progress |-> Undefined, result |-> Undefined,
   error |-> Undefined, fileContent |-> "a,b", filename |-> "data.csv",
   sheetName |-> "Sheet1", context |-> "invoices"]

get(s, id) ==
  IF has(s, id) THEN [threw |-> "none", operation |-> s[id]]
  ELSE [threw |-> "NotFound", operation |-> Undefined]

exists(s, id) == has(s, id)

StatusUpdates(status, t) ==
  CASE status = "processing" -> [status |-> status, startedAt |-> t]
    [] status = "completed" -> [status |-> status, completedAt |-> t]
    [] status = "failed" -> [status |-> status, failedAt |-> t]
    [] status = "cancelled" -> [status |-> status, cancelledAt |-> t]
    [] OTHER -> [status |-> status]

updateStatus(s, id, status, t) ==
  IF ~has(s, id) THEN Threw("NotFound", s)
  ELSE Ok(storeUpdate(s, id, StatusUpdates(status, t)))

DefaultProgress ==
  [phase |-> "parsing", currentStep |-> "", rowsProcessed |-> 0,
   totalRows |-> 0, percentComplete |-> 0]

\* mutant: the new progress is built from the zeroed default every time
updateProgress_Replace(s, id, progress) ==
  IF ~has(s, id) THEN Threw("NotFound", s)
  ELSE Ok(storeUpdate(s, id, [progress |-> Assign(DefaultProgress, progress)]))

\* mutant: a progress write also marks the operation as being processed
updateProgress_Reopen(s, id, progress) ==
  IF ~has(s, id) THEN Threw("NotFound", s)
  ELSE LET currentProgress == IF s[id].progress = Undefined
                              THEN DefaultProgress ELSE s[id].progress
           updatedProgress == Assign(currentProgress, progress)
       IN Ok(storeUpdate(s, id, [status |-> "processing",
                                 progress |-> updatedProgress]))

updateProgress(s, id, progress) ==
  IF ~has(s, id) THEN Threw("NotFound", s)
  ELSE LET currentProgress == IF s[id].progress = Undefined
                              THEN DefaultProgress ELSE s[id].progress
           updatedProgress == Assign(currentProgress, progress)
       IN Ok(storeUpdate(s, id, [progress |-> updatedProgress]))

complete(s, id, result, t) ==
  IF ~has(s, id) THEN Threw("NotFound", s)
  ELSE Ok(storeUpdate(s, id,
         [status |-> "completed", completedAt |-> t, result |-> result,
          progress |-> [phase |-> "mapping", currentStep |-> "complete",
                        rowsProcessed |-> result.rowsProcessed,
                        totalRows |-> result.rowsProcessed,
                        percentComplete |-> 100]]))

\* mutant: fail records the error but leaves the status alone
fail_KeepStatus(s, id, operationError, t) ==
  IF ~has(s, id) THEN Threw("NotFound", s)
  ELSE Ok(storeUpdate(s, id, [failedAt |-> t, error |-> operationError]))

fail(s, id, operationError, t) ==
  IF ~has(s, id) THEN Threw("NotFound", s)
  ELSE Ok(storeUpdate(s, id,
         [status |-> "failed", failedAt |-> t, error |-> operationError]))

\* mutant: cancel without the status guard
cancel_NoGuard(s, id, t) ==
  IF ~has(s, id) THEN Threw("NotFound", s)
  ELSE Ok(storeUpdate(s, id, [status |-> "cancelled", cancelledAt |-> t]))

cancel(s, id, t) ==
  IF ~has(s, id) THEN Threw("NotFound", s)
  ELSE IF s[id].status \notin {"pending", "processing"} THEN Threw("Error", s)
  ELSE Ok(storeUpdate(s, id, [status |-> "cancelled", cancelledAt |-> t]))

canCancel(s, id) ==
  IF ~has(s, id) THEN FALSE ELSE s[id].status \in {"pending", "processing"}

\* -------------------------------------------------------------- controller
cancelOperation(s, id, t) ==
  IF ~canCancel(s, id)
  THEN IF ~has(s, id) THEN Threw("NotFound", s) ELSE Threw("BadRequest", s)
  ELSE LET r == cancel(s, id, t)
       IN IF r.threw \in {"none", "NotFound", "BadRequest"} THEN r
          ELSE Threw("NotFound", r.store)

\* GET /operations/:operationId: the status read model
getOperation(s, id) ==
  LET r == get(s, id)
      operation == r.operation
  IN IF r.threw # "none" THEN [threw |-> "NotFound", body |-> Undefined]
     ELSE [threw |-> "none",
           body |-> [status |-> operation.status,
                     result |-> IF operation.status = "completed"
                                THEN operation.result ELSE Undefined,
                     error |-> IF operation.status = "failed"
                               THEN operation.error ELSE Undefined]]

\* ------------------------------------------------------------------ errors
Error(message) == [name |-> "Error", message |-> message]
NotFoundError == [name |-> "NotFoundException", message |-> "Operation not found"]
SentinelMessage == "Operation cancelled"
NoError == [name |-> "", message |-> ""]

ParserErrors == {Error("Unable to read sheet"),
                 Error("Cannot process binary file")}
InferErrors == {Error("LLM inference failed"),
                Error("LLM inference failed: Unsupported provider")}
DiscoveryParseErrors == {Error("No JSON object found in discovery response"),
                         Error("Failed to parse discovery response")}
CompoundParseErrors == {Error("No JSON object found in compound extraction response"),
                        Error("Failed to parse compound response")}

\* the keywords of getErrorCode that message.toLowerCase() includes
Keywords(message) ==
  CASE message = "Unable to read sheet" -> {"sheet"}
    [] message = "LLM inference failed" -> {"llm", "inference"}
    [] message = "LLM inference failed: Unsupported provider" ->
         {"llm", "inference", "unsupported"}
    [] message = "Failed to parse discovery response" -> {"parse"}
    [] message = "Failed to parse compound response" -> {"parse"}
    [] OTHER -> {}

\* mutant: the format keywords are looked for before the LLM keywords
getErrorCode_FormatFirst(error) ==
  LET kw == Keywords(error.message)
  IN IF kw \cap {"parse", "sheet"} # {} THEN "PARSE_ERROR"
     ELSE IF kw \cap {"unsupported", "format"} # {} THEN "UNSUPPORTED_FORMAT"
     ELSE IF kw \cap {"llm", "bedrock", "inference"} # {} THEN "LLM_ERROR"
     ELSE "EXTRACTION_ERROR"

getErrorCode(error) ==
  LET kw == Keywords(error.message)
  IN IF kw \cap {"parse", "sheet"} # {} THEN "PARSE_ERROR"
     ELSE IF kw \cap {"llm", "bedrock", "inference"} # {} THEN "LLM_ERROR"
     ELSE IF kw \cap {"unsupported", "format"} # {} THEN "UNSUPPORTED_FORMAT"
     ELSE "EXTRACTION_ERROR"

getCurrentPhase(s, id) ==
  IF ~has(s, id) THEN "parsing"
  ELSE IF s[id].progress = Undefined THEN "parsing"
  ELSE s[id].progress.phase

\* ------------------------------------------------------------------ worker
\* a synchronous stretch of processOperation: the store it leaves and the
\* exception (if any) that reached the catch block; wrote lists the progress
\* values the stretch stored, in order
Ran(s) == [threw |-> FALSE, store |-> s, error |-> NoError, wrote |-> <<>>]
Raised(error, s) ==
  [threw |-> TRUE, store |-> s, error |-> error, wrote |-> <<>>]

\* run r, entered after the progress values seq had been stored
Wrote(seq, r) == [r EXCEPT !.wrote = seq \o @]

FromManager(r) ==
  IF r.threw = "none" THEN Ran(r.store) ELSE Raised(NotFoundError, r.store)

Progress(phase, step, rows, total, pct) ==
  [phase |-> phase, currentStep |-> step, rowsProcessed |-> rows,
   totalRows |-> total, percentComplete |-> pct]

\* mutant: the callback only forwards progress
onProgress_NoCancelCheck(s, id, progress) ==
  FromManager(updateProgress(s, id, progress))

\* the progress callback handed to extract (extraction.worker.ts 70-78)
onProgress(s, id, progress) ==
  IF ~has(s, id) THEN Raised(NotFoundError, s)
  ELSE IF s[id].status = "cancelled" THEN Raised(Error(SentinelMessage), s)
  ELSE FromManager(updateProgress(s, id, progress))

RECURSIVE Emit(_, _, _)
Emit(s, id, seq) ==
  IF seq = <<>> THEN Ran(s)
  ELSE LET r == onProgress(s, id, Head(seq))
       IN IF r.threw THEN r
          ELSE Wrote(<<Head(seq)>>, Emit(r.store, id, Tail(seq)))

\* mutant: the catch block treats the sentinel like any other error
catchBlock_NoSentinelCheck(s, id, error, t) ==
  IF ~exists(s, id) THEN [store |-> s, failCalled |-> FALSE, rejected |-> FALSE]
  ELSE LET operationError ==
             [code |-> getErrorCode(error), message |-> error.message,
              phase |-> getCurrentPhase(s, id)]
           r == fail(s, id, operationError, t)
       IN [store |-> r.store, failCalled |-> TRUE,
           rejected |-> r.threw # "none"]

\* mutant: the catch block only logs
catchBlock_LogOnly(s, id, error, t) ==
  [store |-> s, failCalled |-> FALSE, rejected |-> FALSE]

\* mutant: the catch block does not ask whether the operation still exists
catchBlock_NoExistsCheck(s, id, error, t) ==
  IF error.message = SentinelMessage
  THEN [store |-> s, failCalled |-> FALSE, rejected |-> FALSE]
  ELSE LET operationError ==
             [code |-> getErrorCode(error), message |-> error.message,
              phase |-> getCurrentPhase(s, id)]
           r == fail(s, id, operationError, t)
       IN [store |-> r.store, failCalled |-> TRUE,
           rejected |-> r.threw # "none"]

\* the catch block of processOperation (extraction.worker.ts 84-110)
catchBlock(s, id, error, t) ==
  IF ~exists(s, id) THEN [store |-> s, failCalled |-> FALSE, rejected |-> FALSE]
  ELSE IF error.message = SentinelMessage
  THEN [store |-> s, failCalled |-> FALSE, rejected |-> FALSE]
  ELSE LET operationError ==
             [code |-> getErrorCode(error),
              message |-> IF error.message = ""
                          THEN "Unknown error during extraction"
                          ELSE error.message,
              phase |-> getCurrentPhase(s, id)]
           r == fail(s, id, operationError, t)
       IN [store |-> r.store, failCalled |-> TRUE,
           rejected |-> r.threw # "none"]

CeilDiv(a, b) == (a + b - 1) \div b
\* Math.round(a / b) for a >= 0, b > 0
RoundDiv(a, b) == (2 * a + b) \div (2 * b)

\* mutant: the share of the rows is not added to the 35 of the phase
ChunkPercent_NoOffset(rowsProcessed, rowCount) ==
  IF rowCount = 0 THEN NaN ELSE RoundDiv(rowsProcessed * 50, rowCount)

ChunkPercent(rowsProcessed, rowCount) ==
  IF rowCount = 0 THEN NaN ELSE 35 + RoundDiv(rowsProcessed * 50, rowCount)

\* mutant: the chunk size is rounded down
ChunkSize_Floor(rowCount, estimatedTokens) ==
  rowCount \div CeilDiv(estimatedTokens, TOKEN_THRESHOLD)

ChunkSize(rowCount, estimatedTokens) ==
  CeilDiv(rowCount, CeilDiv(estimatedTokens, TOKEN_THRESHOLD))

Min(a, b) == IF a < b THEN a ELSE b

IdleWorker ==
  [pc |-> "idle", rowCount |-> 0, compound |-> FALSE, chunked |-> FALSE,
   chunkSize |-> 0, start |-> 0, llmCalls |-> 0]

NoHist ==
  [parserCalls |-> 0, inferCalls |-> 0, failCalls |-> 0, completeCalls |-> 0,
   sentinel |-> FALSE, raised |-> FALSE, existedAtCatch |-> FALSE,
   cancelBeforeRun |-> FALSE, cancelInWindow |-> FALSE, removed |-> FALSE,
   outcome |-> "none", phases |-> <<>>, calls |-> <<>>, error |-> NoError,
   percents |-> <<>>]

\* one awaited call of the run: the parser, the discovery infer, or a
\* compound infer for the rows start..end-1
Call(what, start, end) == [call |-> what, start |-> start, end |-> end]

PhasesOf(wrote) == [i \in DOMAIN wrote |-> wrote[i].phase]

PercentsOf(wrote) == [i \in DOMAIN wrote |-> wrote[i].percentComplete]

\* lines 26-53: updateStatus, get, the cancelled check, the parsing progress,
\* and the parser call that the function then awaits
EntrySegment(s, id, t) ==
  LET r1 == updateStatus(s, id, "processing", t)
  IN IF r1.threw # "none" THEN [run |-> Raised(NotFoundError, s), stop |-> FALSE]
     ELSE IF r1.store[id].status = "cancelled"
     THEN [run |-> Ran(r1.store), stop |-> TRUE]
     ELSE LET parsing == Progress("parsing", "Parsing file...", 0, 0, 0)
          IN [run |-> Wrote(<<parsing>>,
                        FromManager(updateProgress(r1.store, id, parsing))),
              stop |-> FALSE]

\* mutant: the second discovery event still reports the parsing phase
AfterParseSegment_StalePhase(s, id, rowCount) ==
  IF ~has(s, id) THEN [run |-> Raised(NotFoundError, s), stop |-> FALSE]
  ELSE IF s[id].status = "cancelled" THEN [run |-> Ran(s), stop |-> TRUE]
  ELSE [run |-> Emit(s, id,
            <<Progress("discovery", "Sampling data for analysis", 0, rowCount, 5),
              Progress("parsing", "Analyzing column mappings", 0, rowCount, 10)>>),
        stop |-> FALSE]

\* lines 59-67 and extract 289-309: the re-check after parsing, the two
\* discovery progress events, then the discovery infer call is awaited
AfterParseSegment(s, id, rowCount) ==
  IF ~has(s, id) THEN [run |-> Raised(NotFoundError, s), stop |-> FALSE]
  ELSE IF s[id].status = "cancelled" THEN [run |-> Ran(s), stop |-> TRUE]
  ELSE [run |-> Emit(s, id,
            <<Progress("discovery", "Sampling data for analysis", 0, rowCount, 5),
              Progress("discovery", "Analyzing column mappings", 0, rowCount, 10)>>),
        stop |-> FALSE]

\* mutant: the result counts the discovery call only
FinishSegment_DiscoveryOnly(s, id, rowCount, llmCalls, t) ==
  LET r == Emit(s, id,
             <<Progress("mapping", "Building final result", rowCount, rowCount, 90),
               Progress("mapping", "Complete", rowCount, rowCount, 100)>>)
      result == [rowsProcessed |-> rowCount, llmCalls |-> 1]
  IN IF r.threw THEN [run |-> r, completed |-> FALSE]
     ELSE LET c == FromManager(complete(r.store, id, result, t))
          IN [run |-> Wrote(r.wrote \o (IF c.threw THEN <<>>
                                         ELSE <<c.store[id].progress>>), c),
              completed |-> has(r.store, id)]

\* extract 356-418 and worker line 82: mapping progress, result, complete
FinishSegment(s, id, rowCount, llmCalls, t) ==
  LET r == Emit(s, id,
             <<Progress("mapping", "Building final result", rowCount, rowCount, 90),
               Progress("mapping", "Complete", rowCount, rowCount, 100)>>)
      result == [rowsProcessed |-> rowCount, llmCalls |-> llmCalls]
  IN IF r.threw THEN [run |-> r, completed |-> FALSE]
     ELSE LET c == FromManager(complete(r.store, id, result, t))
          IN [run |-> Wrote(r.wrote \o (IF c.threw THEN <<>>
                                         ELSE <<c.store[id].progress>>), c),
              completed |-> has(r.store, id)]

\* ----------------------------------------------------------------- actions
NoResponse ==
  [kind |-> "none", id |-> "", threw |-> "none", cleaned |-> 0,
   body |-> Undefined]

NoCall == [fn |-> "none"]

Init ==
  /\ now = 0
  /\ store = <<>>
  /\ created = {}
  /\ worker = [id \in OpIds |-> IdleWorker]
  /\ hist = [id \in OpIds |-> NoHist]
  /\ response = NoResponse
  /\ call = NoCall

\* a caller of OperationsManager.create (a fresh uuid each time)
Create(id) ==
  /\ id \notin created
  /\ now + TTL_PROCESSING < MaxTime
  /\ store' = storeCreate(store, NewOperation(id, now))
  /\ created' = created \cup {id}
  /\ response' = NoResponse
  /\ UNCHANGED <<now, worker, hist, call>>

\* what one synchronous stretch of the worker leaves behind: either the
\* worker goes on (wNext, hNext) or the catch block runs and the run ends
Conclude(id, run, wNext, hNext, external) ==
  IF ~run.threw
  THEN /\ store' = run.store
       /\ worker' = [worker EXCEPT ![id] = wNext]
       /\ hist' = [hist EXCEPT
            ![id] = [hNext EXCEPT !.phases = @ \o PhasesOf(run.wrote),
                                  !.percents = @ \o PercentsOf(run.wrote)]]
  ELSE LET c == catchBlock(run.store, id, run.error, now)
       IN /\ store' = c.store
          /\ worker' = [worker EXCEPT ![id].pc = "done"]
          /\ hist' = [hist EXCEPT
               ![id].failCalls = @ + (IF c.failCalled THEN 1 ELSE 0),
               ![id].sentinel = @ \/ run.error.message = SentinelMessage,
               ![id].raised = @ \/ external,
               ![id].error = run.error,
               ![id].existedAtCatch = has(run.store, id),
               ![id].phases = @ \o PhasesOf(run.wrote),
               ![id].percents = @ \o PercentsOf(run.wrote),
               ![id].outcome = IF c.rejected THEN "rejected" ELSE "returned"]

Stopped(h) == [h EXCEPT !.outcome = "returned"]

\* processOperation up to its first await, run on store s
Enter(id, s) ==
  LET e == EntrySegment(s, id, now)
  IN IF e.stop
     THEN Conclude(id, e.run, [worker[id] EXCEPT !.pc = "done"],
                   Stopped(hist[id]), FALSE)
     ELSE Conclude(id, e.run, [worker[id] EXCEPT !.pc = "parsing"],
                   [hist[id] EXCEPT !.parserCalls = @ + 1,
                                    !.calls = Append(@, Call("parser", 0, 0))],
                   FALSE)

\* POST /extract (extract.controller.ts 138-147): create, then the worker
\* is called without await, so it runs to its first await in the handler
Extract(id) ==
  /\ id \notin created
  /\ now + TTL_PROCESSING < MaxTime
  /\ Enter(id, storeCreate(store, NewOperation(id, now)))
  /\ created' = created \cup {id}
  /\ response' = NoResponse
  /\ UNCHANGED <<now, call>>

\* a caller of ExtractionWorker.processOperation for an operation created
\* earlier
Dispatch(id) ==
  /\ id \in created
  /\ worker[id].pc = "idle"
  /\ Enter(id, store)
  /\ response' = NoResponse
  /\ UNCHANGED <<now, created, call>>

\* the parser promise settles
ParserReturn(id) ==
  /\ worker[id].pc = "parsing"
  /\ \/ \E rowCount \in 0..MaxRows :
          LET a == AfterParseSegment(store, id, rowCount)
          IN IF a.stop
             THEN Conclude(id, a.run, [worker[id] EXCEPT !.pc = "done"],
                           Stopped(hist[id]), FALSE)
             ELSE Conclude(id, a.run,
                    [worker[id] EXCEPT !.pc = "discovery", !.rowCount = rowCount],
                    [hist[id] EXCEPT
                       !.inferCalls = @ + 1,
                       !.calls = Append(@, Call("discovery", 0, 0))],
                    FALSE)
     \/ \E error \in ParserErrors :
          Conclude(id, Raised(error, store), worker[id], hist[id], TRUE)
  /\ response' = NoResponse
  /\ UNCHANGED <<now, created, call>>

\* extract 356-418 and worker 82-83
Finish(id, prev, w) ==
  LET f == FinishSegment(prev.store, id, w.rowCount, w.llmCalls, now)
  IN Conclude(id, Wrote(prev.wrote, f.run),
       [w EXCEPT !.pc = "done"],
       [hist[id] EXCEPT !.completeCalls = @ + 1, !.outcome = "returned"],
       FALSE)

\* the discovery infer promise settles (extract 309-353, compound 431-482)
DiscoveryReturn(id) ==
  /\ worker[id].pc = "discovery"
  /\ \/ \E compound \in BOOLEAN, estimatedTokens \in TokenEstimates :
          LET rowCount == worker[id].rowCount
              r30 == Emit(store, id,
                       <<Progress("discovery", "Discovery complete", 0, rowCount, 30)>>)
              r35 == Wrote(r30.wrote, Emit(r30.store, id,
                       <<Progress("extraction", "Extracting compound values", 0, rowCount, 35)>>))
              chunkSize == ChunkSize(rowCount, estimatedTokens)
          IN IF r30.threw
             THEN Conclude(id, r30, worker[id], hist[id], FALSE)
             ELSE IF ~compound
             THEN Finish(id, r30,
                    [worker[id] EXCEPT !.compound = FALSE, !.llmCalls = 1])
             ELSE IF r35.threw
             THEN Conclude(id, r35, worker[id], hist[id], FALSE)
             ELSE IF estimatedTokens <= TOKEN_THRESHOLD
             THEN Conclude(id, r35,
                    [worker[id] EXCEPT !.pc = "extraction", !.compound = TRUE,
                                       !.chunked = FALSE, !.llmCalls = 1],
                    [hist[id] EXCEPT
                       !.inferCalls = @ + 1,
                       !.calls = Append(@, Call("compound", 0, rowCount))],
                    FALSE)
             ELSE IF 0 < rowCount
             THEN Conclude(id, r35,
                    [worker[id] EXCEPT !.pc = "extraction", !.compound = TRUE,
                                       !.chunked = TRUE,
                                       !.chunkSize = chunkSize, !.start = 0,
                                       !.llmCalls = 1],
                    [hist[id] EXCEPT
                       !.inferCalls = @ + 1,
                       !.calls = Append(@, Call("compound", 0,
                                                Min(chunkSize, rowCount)))],
                    FALSE)
             ELSE Finish(id, r35,
                    [worker[id] EXCEPT !.compound = TRUE, !.chunked = TRUE,
                                       !.chunkSize = chunkSize, !.llmCalls = 1])
     \/ \E error \in InferErrors \cup DiscoveryParseErrors :
          Conclude(id, Raised(error, store), worker[id], hist[id], TRUE)
  /\ response' = NoResponse
  /\ UNCHANGED <<now, created, call>>

\* a compound infer promise settles (compound 462-488)
CompoundReturn(id) ==
  /\ worker[id].pc = "extraction"
  /\ \/ LET w == worker[id]
            rowCount == w.rowCount
            end == IF w.chunked THEN Min(w.start + w.chunkSize, rowCount)
                   ELSE rowCount
            r == Emit(store, id,
                   <<Progress("extraction", "Processing row", end, rowCount,
                              ChunkPercent(end, rowCount))>>)
            next == w.start + w.chunkSize
        IN IF r.threw
           THEN Conclude(id, r, w, hist[id], FALSE)
           ELSE IF w.chunked /\ next < rowCount
           THEN Conclude(id, r,
                  [w EXCEPT !.start = next, !.llmCalls = @ + 1],
                  [hist[id] EXCEPT
                     !.inferCalls = @ + 1,
                     !.calls = Append(@, Call("compound", next,
                                              Min(next + w.chunkSize, rowCount)))],
                  FALSE)
           ELSE Finish(id, r, [w EXCEPT !.llmCalls = @ + 1])
     \/ \E error \in InferErrors \cup CompoundParseErrors :
          Conclude(id, Raised(error, store), worker[id], hist[id], TRUE)
  /\ response' = NoResponse
  /\ UNCHANGED <<now, created, call>>

NoteCancel(id, r) ==
  IF r.threw # "none" THEN hist
  ELSE [hist EXCEPT
          ![id].cancelBeforeRun = @ \/ worker[id].pc = "idle",
          ![id].cancelInWindow =
             @ \/ worker[id].pc \in {"parsing", "discovery", "extraction"}]

\* a caller of OperationsManager.cancel
ManagerCancel(id) ==
  LET r == cancel(store, id, now)
  IN /\ store' = r.store
     /\ response' = [kind |-> "cancel", id |-> id, threw |-> r.threw, cleaned |-> 0,
                   body |-> Undefined]
     /\ hist' = NoteCancel(id, r)
     /\ UNCHANGED <<now, created, worker, call>>

\* POST /operations/:operationId/cancel
ControllerCancel(id) ==
  LET r == cancelOperation(store, id, now)
  IN /\ store' = r.store
     /\ response' = [kind |-> "cancelOperation", id |-> id, threw |-> r.threw,
                   cleaned |-> 0, body |-> Undefined]
     /\ hist' = NoteCancel(id, r)
     /\ UNCHANGED <<now, created, worker, call>>

\* a polling client reads the operation
GetOperation(id) ==
  LET r == getOperation(store, id)
  IN /\ response' = [kind |-> "getOperation", id |-> id, threw |-> r.threw,
                      cleaned |-> 0, body |-> r.body]
     /\ UNCHANGED <<now, store, created, worker, hist, call>>

NoteRemoved(s) ==
  [id \in OpIds |-> IF has(store, id) /\ ~has(s, id)
                    THEN [hist[id] EXCEPT !.removed = TRUE] ELSE hist[id]]

\* OperationsStore.delete
Delete(id) ==
  /\ has(store, id)
  /\ store' = storeDelete(store, id)
  /\ hist' = NoteRemoved(storeDelete(store, id))
  /\ response' = NoResponse
  /\ UNCHANGED <<now, created, worker, call>>

\* the setInterval callback of the store (and OperationsManager.cleanup)
Sweep ==
  /\ store' = cleanupExpired(store, now)
  /\ hist' = NoteRemoved(cleanupExpired(store, now))
  /\ response' = [kind |-> "cleanup", id |-> "", threw |-> "none",
                  cleaned |-> cleanedCount(store, now), body |-> Undefined]
  /\ UNCHANGED <<now, created, worker, call>>

\* the clock advances
Tick ==
  /\ now < MaxTime
  /\ now' = now + TickStep
  /\ response' = NoResponse
  /\ UNCHANGED <<store, created, worker, hist, call>>

\* the application as wired: every operation enters through POST /extract
Next ==
  \/ \E id \in OpIds : Extract(id)
  \/ \E id \in OpIds : ParserReturn(id)
  \/ \E id \in OpIds : DiscoveryReturn(id)
  \/ \E id \in OpIds : CompoundReturn(id)
  \/ \E id \in OpIds : ControllerCancel(id)
  \/ \E id \in OpIds : GetOperation(id)
  \/ Sweep
  \/ Tick

Spec == Init /\ [][Next]_vars

\* the services called directly: the worker may be dispatched any time after
\* create, and the manager and the store are called without the controllers
ApiNext ==
  \/ Next
  \/ \E id \in OpIds : Create(id)
  \/ \E id \in OpIds : Dispatch(id)
  \/ \E id \in OpIds : ManagerCancel(id)
  \/ \E id \in OpIds : Delete(id)

ApiSpec == Init /\ [][ApiNext]_vars

\* time advances and the periodic sweep keeps running
ApiLiveSpec == ApiSpec /\ WF_vars(Tick) /\ WF_vars(Sweep)

TypeOK ==
  /\ now \in 0..(MaxTime + TickStep)
  /\ DOMAIN store \subseteq created
  /\ created \subseteq OpIds
  /\ \A id \in DOMAIN store : store[id].status \in Statuses

\* ------------------------------------------------- the sweep on any store
\* cleanupExpired applied to stores holding records of every status and age
SweepIds == {"op_a", "op_b"}
CreatedTimes == {0, 10}
\* minutes between create and the call that set the record's current status
StatusDelays == {0, 20}
SweepTimes == {30, 31, 40, 41, 60, 61, 70, 71, 1440, 1441, 1450, 1451}

\* the record the manager leaves behind in each status
StoredRecord(id, status, c, d) ==
  LET s0 == storeCreate(<<>>, NewOperation(id, c))
      s1 == updateStatus(s0, id, "processing", c).store
  IN CASE status = "pending" -> s0[id]
       [] status = "processing" ->
            updateStatus(s0, id, "processing", c + d).store[id]
       [] status = "completed" ->
            complete(s1, id, [rowsProcessed |-> 1, llmCalls |-> 1], c + d).store[id]
       [] status = "failed" ->
            fail(s1, id, [code |-> "LLM_ERROR", message |-> "LLM inference failed",
                          phase |-> "parsing"], c + d).store[id]
       [] status = "cancelled" -> cancel(s1, id, c + d).store[id]

StoredRecords ==
  {StoredRecord(id, status, c, d) :
     id \in SweepIds, status \in Statuses, c \in CreatedTimes, d \in StatusDelays}

DrawnStores ==
  {s \in UNION {[D -> StoredRecords] : D \in SUBSET SweepIds} :
     \A k \in DOMAIN s : s[k].operationId = k}

StoreInit ==
  /\ now \in SweepTimes
  /\ store \in DrawnStores
  /\ created = DOMAIN store
  /\ worker = [id \in OpIds |-> IdleWorker]
  /\ hist = [id \in OpIds |-> NoHist]
  /\ response = NoResponse
  /\ call = NoCall

StoreNext == Sweep

StoreSpec == StoreInit /\ [][StoreNext]_vars

\* ------------------------------------------- updateProgress on any partial
ProgressFields ==
  {"phase", "currentStep", "rowsProcessed", "totalRows", "percentComplete"}

FullProgress ==
  {Progress(phase, step, rows, total, pct) :
     phase \in {"discovery", "mapping"}, step \in {"Reading"},
     rows \in {1, 2}, total \in {2}, pct \in {50, 100}}

Restrict(r, D) == [f \in D |-> r[f]]

\* Partial<OperationProgress>: any subset of the fields
PartialProgress ==
  {Restrict(full, D) : full \in FullProgress, D \in SUBSET ProgressFields}

\* the fields supplied so far, each with the value of the latest call that
\* supplied it
Supply(supplied, partial) ==
  [f \in DOMAIN supplied \cup DOMAIN partial |->
     IF f \in DOMAIN partial THEN partial[f] ELSE supplied[f]]

ProgressInit ==
  /\ now = 0
  /\ store = storeCreate(<<>>, NewOperation("op_a", 0))
  /\ created = {"op_a"}
  /\ worker = [id \in OpIds |-> IdleWorker]
  /\ hist = [id \in OpIds |-> NoHist]
  /\ response = NoResponse
  /\ call = [fn |-> "updateProgress", id |-> "op_a",
             supplied |-> Restrict(DefaultProgress, {}),
             partial |-> Restrict(DefaultProgress, {})]

\* a caller of OperationsManager.updateProgress
UpdateProgress(id, partial) ==
  LET r == updateProgress(store, id, partial)
  IN /\ store' = r.store
     /\ response' = [kind |-> "updateProgress", id |-> id, threw |-> r.threw,
                     cleaned |-> 0, body |-> Undefined]
     /\ call' = [fn |-> "updateProgress", id |-> id,
                 supplied |-> IF r.threw = "none"
                              THEN Supply(call.supplied, partial)
                              ELSE call.supplied,
                 partial |-> partial]
     /\ UNCHANGED <<now, created, worker, hist>>

ProgressNext == \E id \in created, partial \in PartialProgress :
                  UpdateProgress(id, partial)

ProgressSpec == ProgressInit /\ [][ProgressNext]_vars

\* updateProgress on stores holding records of every status, and on ids
\* the store does not hold
FramePartials ==
  {Restrict(Progress("extraction", "Processing row", 1, 2, 60), D) :
     D \in {ProgressFields, {"percentComplete"}, {}}}

FrameInit ==
  /\ now = TickStep
  /\ store \in {s \in DrawnStores : \A k \in DOMAIN s : s[k].createdAt = 0}
  /\ created = DOMAIN store
  /\ worker = [id \in OpIds |-> IdleWorker]
  /\ hist = [id \in OpIds |-> NoHist]
  /\ response = NoResponse
  /\ call = [fn |-> "updateProgress", id |-> "op_a",
             supplied |-> Restrict(DefaultProgress, {}),
             partial |-> Restrict(DefaultProgress, {})]

FrameNext == \E id \in SweepIds, partial \in FramePartials :
               UpdateProgress(id, partial)

FrameSpec == FrameInit /\ [][FrameNext]_vars

\* ------------------------------------------------------------ the sampler
Headers == <<"A", "B", "C">>

\* the text of the cell in row i (from 0) under Headers[c]; some cells are
\* empty strings
CellText(i, c) == IF (i + c) % 4 = 0 THEN "" ELSE ToString(10 * i + c)

Row(i) == [h \in {Headers[c] : c \in DOMAIN Headers} |->
             CellText(i, CHOOSE c \in DOMAIN Headers : Headers[c] = h)]

\* what the parser hands over for a sheet of n rows
NormalizedDataOf(n) ==
  [source |-> [filename |-> "data.csv", type |-> "csv"],
   data |-> [headers |-> Headers, rows |-> [i \in 1..n |-> Row(i - 1)],
             rowCount |-> n, columnCount |-> Len(Headers)],
   metadata |-> [parsedAt |-> "2024-01-01T00:00:00Z", parserVersion |-> "1.0.0"]]

\* Array.prototype.slice(from, to) for 0 <= from
Slice(seq, from, to) == SubSeq(seq, from + 1, Min(to, Len(seq)))

\* mutant: a sheet of exactly SAMPLE_THRESHOLD rows is sampled too
sample_Inclusive(normalizedData) ==
  IF normalizedData.data.rowCount < SAMPLE_THRESHOLD THEN normalizedData
  ELSE LET sampledRows == Slice(normalizedData.data.rows, 0, MAX_SAMPLE_SIZE)
       IN [normalizedData EXCEPT
             !.data = [headers |-> normalizedData.data.headers,
                       rows |-> sampledRows,
                       rowCount |-> Len(sampledRows),
                       columnCount |-> normalizedData.data.columnCount]]

sample(normalizedData) ==
  IF normalizedData.data.rowCount <= SAMPLE_THRESHOLD THEN normalizedData
  ELSE LET sampledRows == Slice(normalizedData.data.rows, 0, MAX_SAMPLE_SIZE)
       IN [normalizedData EXCEPT
             !.data = [headers |-> normalizedData.data.headers,
                       rows |-> sampledRows,
                       rowCount |-> Len(sampledRows),
                       columnCount |-> normalizedData.data.columnCount]]

getSampleSize(totalRows) ==
  IF totalRows <= SAMPLE_THRESHOLD THEN totalRows ELSE MAX_SAMPLE_SIZE

willSample(totalRows) == totalRows > SAMPLE_THRESHOLD

SamplerInit ==
  /\ now = 0
  /\ store = <<>>
  /\ created = {}
  /\ worker = [id \in OpIds |-> IdleWorker]
  /\ hist = [id \in OpIds |-> NoHist]
  /\ response = NoResponse
  /\ \E n \in 0..MaxSampleRows :
       call = [fn |-> "sampler", input |-> NormalizedDataOf(n), done |-> {},
               sampled |-> Undefined, sampleSize |-> 0, willSample |-> FALSE]

Sample ==
  /\ call.fn = "sampler" /\ "sample" \notin call.done
  /\ call' = [call EXCEPT !.done = @ \cup {"sample"},
                          !.sampled = sample(call.input)]
  /\ UNCHANGED <<now, store, created, worker, hist, response>>

GetSampleSize ==
  /\ call.fn = "sampler" /\ "getSampleSize" \notin call.done
  /\ call' = [call EXCEPT !.done = @ \cup {"getSampleSize"},
                          !.sampleSize = getSampleSize(call.input.data.rowCount)]
  /\ UNCHANGED <<now, store, created, worker, hist, response>>

WillSample ==
  /\ call.fn = "sampler" /\ "willSample" \notin call.done
  /\ call' = [call EXCEPT !.done = @ \cup {"willSample"},
                          !.willSample = willSample(call.input.data.rowCount)]
  /\ UNCHANGED <<now, store, created, worker, hist, response>>

SamplerNext == Sample \/ GetSampleSize \/ WillSample

SamplerSpec == SamplerInit /\ [][SamplerNext]_vars

\* ------------------------------------------------- the extraction result
\* null where a string was expected (no text of the model equals it)
Null == "<null>"

\* row[column] || ''
Cell(row, column) == IF column \in DOMAIN row THEN row[column] ELSE ""

\* the concatenation of a list of lists (halving keeps the recursion shallow)
RECURSIVE Flatten(_)
Flatten(seqs) ==
  IF seqs = <<>> THEN <<>>
  ELSE IF Len(seqs) = 1 THEN seqs[1]
  ELSE LET half == Len(seqs) \div 2
       IN Flatten(SubSeq(seqs, 1, half))
            \o Flatten(SubSeq(seqs, half + 1, Len(seqs)))

\* reduce((a, b) => a + b, 0)
RECURSIVE Sum(_)
Sum(seq) ==
  IF seq = <<>> THEN 0
  ELSE IF Len(seq) = 1 THEN seq[1]
  ELSE LET half == Len(seq) \div 2
       IN Sum(SubSeq(seq, 1, half)) + Sum(SubSeq(seq, half + 1, Len(seq)))

\* Math.round((sum / length) * 10) / 10, in tenths; 0 for an empty list
Average(confidences) ==
  IF Len(confidences) > 0
  THEN RoundDiv(10 * Sum(confidences), Len(confidences)) ELSE 0

\* objects are kept as the sequence of their entries, in insertion order
Mapping(targetField, sourceColumn, confidence) ==
  [targetField |-> targetField, sourceColumn |-> sourceColumn,
   confidence |-> confidence]

CompoundColumn(sourceColumn, targetFields) ==
  [sourceColumn |-> sourceColumn, targetFields |-> targetFields]

\* what parseDiscoveryResponse may return: fields mapped to headers, two
\* fields on one header, a column that is no header, compound columns of
\* one or two fields, a column claimed both ways, a field claimed both ways
DirectChoices ==
  {<<>>, <<Mapping("f1", "A", 9)>>,
   <<Mapping("f1", "A", 9), Mapping("f2", "B", 6)>>,
   <<Mapping("f1", "A", 9), Mapping("f2", "A", 6)>>,
   <<Mapping("f1", "Z", 8)>>}

CompoundChoices ==
  {<<>>, <<CompoundColumn("C", <<"f3">>)>>,
   <<CompoundColumn("C", <<"f3", "f4">>)>>,
   <<CompoundColumn("A", <<"f3">>), CompoundColumn("C", <<"f4">>)>>,
   <<CompoundColumn("C", <<"f1", "f4">>)>>}

DiscoveryResults ==
  {[directMappings |-> d, compoundColumns |-> c, unmappedFields |-> <<>>] :
     d \in DirectChoices, c \in CompoundChoices}

FieldData(field, value, confidence) ==
  [field |-> field, value |-> value, confidence |-> confidence]

\* the entry of a compound response for one row and column, every listed
\* field answered
FullEntry(column, rowIndex, confidence) ==
  [rowIndex |-> rowIndex, sourceColumn |-> column.sourceColumn,
   fields |-> [j \in DOMAIN column.targetFields |->
                 FieldData(column.targetFields[j],
                           IF (rowIndex + j) % 3 = 0 THEN Null ELSE "NYC",
                           IF j = 1 THEN confidence ELSE confidence - 3)]]

FullEntries(discoveryResult, rowIndexes, confidence) ==
  Flatten([k \in DOMAIN discoveryResult.compoundColumns |->
             [i \in DOMAIN rowIndexes |->
                FullEntry(discoveryResult.compoundColumns[k], rowIndexes[i],
                          confidence)]])

ResponseShapes ==
  {"none", "full", "omitField", "omitRow", "empty", "extra", "duplicate"}

\* the extractions the compound calls returned for the rows 0..n-1
CompoundResultOf(shape, discoveryResult, n) ==
  LET all == [i \in 1..n |-> i - 1]
      full == FullEntries(discoveryResult, all, 8)
      NotFirstRow(e) == e.rowIndex # 0
  IN CASE shape = "full" -> full
       [] shape = "omitField" ->
            [i \in DOMAIN full |->
               [full[i] EXCEPT !.fields = SubSeq(@, 1, Len(@) - 1)]]
       [] shape = "omitRow" -> SelectSeq(full, NotFirstRow)
       [] shape = "extra" ->
            [i \in DOMAIN full |->
               [full[i] EXCEPT !.fields = Append(@, FieldData("fx", "x", 2))]]
            \o FullEntries(discoveryResult, <<n>>, 8)
       [] shape = "duplicate" ->
            full \o FullEntries(discoveryResult, all, 4)
       [] OTHER -> <<>>

ExtractRowCounts == {0, 1, 2, SAMPLE_THRESHOLD + 1}

\* the arguments of buildExtractedData that extract can arrive at: without
\* compound columns, or without rows in chunk mode, no compound call is made
\* and compoundResult stays null
ExtractInput(n, d, shape) ==
  [normalizedData |-> NormalizedDataOf(n), discoveryResult |-> d,
   shape |-> shape,
   compoundResult |-> IF shape = "none" THEN Undefined
                      ELSE [extractions |-> CompoundResultOf(shape, d, n)],
   compoundCallCount |-> IF shape = "none" THEN 0 ELSE 1]

ExtractInputs ==
  {ExtractInput(t[1], t[2], t[3]) :
     t \in {u \in ExtractRowCounts \X DiscoveryResults \X ResponseShapes :
              IF u[2].compoundColumns = <<>> THEN u[3] = "none"
              ELSE u[3] = "none" => u[1] = 0}}

Columns(entries) == {entries[i].sourceColumn : i \in DOMAIN entries}

\* the last entry for a source column (a later assignment to the same key
\* overwrites the earlier one)
LastIndex(entries, sourceColumn) ==
  CHOOSE i \in DOMAIN entries :
    /\ entries[i].sourceColumn = sourceColumn
    /\ \A j \in DOMAIN entries :
         entries[j].sourceColumn = sourceColumn => j <= i

\* compoundLookup.get(rowIndex:sourceColumn)?.get(targetField)
LookupField(extractions, rowIndex, sourceColumn, targetField) ==
  LET hits == {h \in UNION {{<<i, j>> : j \in DOMAIN extractions[i].fields} :
                              i \in DOMAIN extractions} :
                 /\ extractions[h[1]].rowIndex = rowIndex
                 /\ extractions[h[1]].sourceColumn = sourceColumn
                 /\ extractions[h[1]].fields[h[2]].field = targetField}
  IN IF hits = {} THEN Undefined
     ELSE LET last == CHOOSE h \in hits : \A g \in hits :
                        g[1] < h[1] \/ (g[1] = h[1] /\ g[2] <= h[2])
          IN extractions[last[1]].fields[last[2]]

ExtractionsOf(compoundResult) ==
  IF compoundResult = Undefined THEN <<>> ELSE compoundResult.extractions

\* mutant: only the direct mappings claim their source column
MappedSourceColumns_DirectOnly(discoveryResult) ==
  Columns(discoveryResult.directMappings)

MappedSourceColumns(discoveryResult) ==
  Columns(discoveryResult.directMappings)
    \cup Columns(discoveryResult.compoundColumns)

\* mutant: a field the response lacks comes out as an empty string
ExtractionItem_EmptyString(targetField, fieldData) ==
  [targetField |-> targetField,
   extractedValue |-> IF fieldData = Undefined THEN "" ELSE fieldData.value,
   confidence |-> IF fieldData = Undefined THEN 1 ELSE fieldData.confidence]

\* fieldData?.value ?? null, fieldData?.confidence ?? 0
ExtractionItem(targetField, fieldData) ==
  [targetField |-> targetField,
   extractedValue |-> IF fieldData = Undefined THEN Null ELSE fieldData.value,
   confidence |-> IF fieldData = Undefined THEN 0 ELSE fieldData.confidence]

\* mutant: a header whose cell is empty gets no unmapped entry
ExtractedRow_SkipEmpty(row, rowIndex, headers, discoveryResult, extractions) ==
  LET directMappings == discoveryResult.directMappings
      compoundColumns == discoveryResult.compoundColumns
  IN [direct |->
        [k \in Columns(directMappings) |->
           LET mapping == directMappings[LastIndex(directMappings, k)]
           IN [value |-> Cell(row, k), targetField |-> mapping.targetField,
               confidence |-> mapping.confidence]],
      compound |->
        [k \in Columns(compoundColumns) |->
           LET targetFields ==
                 compoundColumns[LastIndex(compoundColumns, k)].targetFields
           IN [sourceValue |-> Cell(row, k),
               extractions |->
                 [j \in DOMAIN targetFields |->
                    LET fieldData == LookupField(extractions, rowIndex, k,
                                                 targetFields[j])
                    IN ExtractionItem(targetFields[j], fieldData)]]],
      unmapped |->
        [h \in {g \in {headers[i] : i \in DOMAIN headers}
                        \ MappedSourceColumns(discoveryResult) :
                  Cell(row, g) # ""} |-> Cell(row, h)]]

\* one element of rows.map(...) in buildExtractedData
ExtractedRow(row, rowIndex, headers, discoveryResult, extractions) ==
  LET directMappings == discoveryResult.directMappings
      compoundColumns == discoveryResult.compoundColumns
  IN [direct |->
        [k \in Columns(directMappings) |->
           LET mapping == directMappings[LastIndex(directMappings, k)]
           IN [value |-> Cell(row, k), targetField |-> mapping.targetField,
               confidence |-> mapping.confidence]],
      compound |->
        [k \in Columns(compoundColumns) |->
           LET targetFields ==
                 compoundColumns[LastIndex(compoundColumns, k)].targetFields
           IN [sourceValue |-> Cell(row, k),
               extractions |->
                 [j \in DOMAIN targetFields |->
                    LET fieldData == LookupField(extractions, rowIndex, k,
                                                 targetFields[j])
                    IN ExtractionItem(targetFields[j], fieldData)]]],
      unmapped |->
        [h \in {headers[i] : i \in DOMAIN headers}
                 \ MappedSourceColumns(discoveryResult) |-> Cell(row, h)]]

\* buildExtractedData 497-576 over the given rows: the result rows, and the
\* values pushed on allConfidences
BuildRows(rows, headers, discoveryResult, compoundResult) ==
  LET extractions == ExtractionsOf(compoundResult)
      directMappings == discoveryResult.directMappings
  IN [data |-> [i \in DOMAIN rows |->
                  ExtractedRow(rows[i], i - 1, headers, discoveryResult,
                               extractions)],
      allConfidences |->
        Flatten([i \in DOMAIN extractions |->
                   [j \in DOMAIN extractions[i].fields |->
                      extractions[i].fields[j].confidence]])
        \o Flatten([i \in DOMAIN rows |->
                      [m \in DOMAIN directMappings |->
                         directMappings[m].confidence]])]

\* mutant: the result is built from the rows that were sampled for discovery
buildExtractedData_FromSample(normalizedData, discoveryResult, compoundResult) ==
  BuildRows(sample(normalizedData).data.rows, normalizedData.data.headers,
            discoveryResult, compoundResult)

buildExtractedData(normalizedData, discoveryResult, compoundResult) ==
  BuildRows(normalizedData.data.rows, normalizedData.data.headers,
            discoveryResult, compoundResult)

\* what extract returns once the discovery and compound calls have answered
\* (extract 279-419); averageConfidence is kept in tenths
extractResult(normalizedData, discoveryResult, compoundResult, compoundCallCount) ==
  LET sampled == sample(normalizedData)
      compoundColumns == discoveryResult.compoundColumns
      built == buildExtractedData(normalizedData, discoveryResult, compoundResult)
      headers == normalizedData.data.headers
      Unmapped(h) == h \notin MappedSourceColumns(discoveryResult)
  IN [discoveryPromptRows |-> sampled.data.rowCount,
      allConfidences |-> built.allConfidences,
      result |->
        [data |-> built.data,
         metadata |->
           [sourceFile |-> normalizedData.source.filename,
            rowsProcessed |-> normalizedData.data.rowCount,
            extractionSummary |->
              [directMappings |-> Len(discoveryResult.directMappings),
               compoundExtractions |->
                 Sum([k \in DOMAIN compoundColumns |->
                        Len(compoundColumns[k].targetFields)]),
               unmappedColumns |-> SelectSeq(headers, Unmapped),
               unmappedFields |-> discoveryResult.unmappedFields,
               llmCalls |-> 1 + compoundCallCount,
               averageConfidence |-> Average(built.allConfidences)]]]]

RECURSIVE ListOf(_)
ListOf(set) ==
  IF set = {} THEN <<>>
  ELSE LET x == CHOOSE y \in set : TRUE IN <<x>> \o ListOf(set \ {x})

\* Object.values(record), as a list
Values(record) == LET key == ListOf(DOMAIN record)
                  IN [n \in DOMAIN key |-> record[key[n]]]

\* the confidence values MapperService.getExtractionStats adds up
StatsConfidences(result) ==
  Flatten([i \in DOMAIN result.data |->
     LET direct == Values(result.data[i].direct)
         compound == Values(result.data[i].compound)
     IN [n \in DOMAIN direct |-> direct[n].confidence]
        \o Flatten([n \in DOMAIN compound |->
              [j \in DOMAIN compound[n].extractions |->
                 compound[n].extractions[j].confidence]])])

getExtractionStats(result) ==
  LET confidences == StatsConfidences(result)
      sampleRow == result.data[1]
      compound == Values(sampleRow.compound)
  IN [totalRows |-> Len(result.data),
      directMappings |->
        IF result.data # <<>> THEN Cardinality(DOMAIN sampleRow.direct) ELSE 0,
      compoundExtractions |->
        IF result.data # <<>>
        THEN Sum([n \in DOMAIN compound |-> Len(compound[n].extractions)])
        ELSE 0,
      averageConfidence |-> Average(confidences),
      lowConfidenceCount |->
        Cardinality({i \in DOMAIN confidences : confidences[i] < 5})]

\* the fields found in the first row (a Set, returned as an array)
getMappedFields(result) ==
  IF Len(result.data) = 0 THEN {}
  ELSE LET sampleRow == result.data[1]
       IN {sampleRow.direct[k].targetField : k \in DOMAIN sampleRow.direct}
          \cup UNION {{sampleRow.compound[k].extractions[j].targetField :
                         j \in DOMAIN sampleRow.compound[k].extractions} :
                      k \in DOMAIN sampleRow.compound}

\* the keys of the first row
getSourceColumns(result) ==
  IF Len(result.data) = 0
  THEN [direct |-> {}, compound |-> {}, unmapped |-> {}]
  ELSE LET sampleRow == result.data[1]
       IN [direct |-> DOMAIN sampleRow.direct,
           compound |-> DOMAIN sampleRow.compound,
           unmapped |-> DOMAIN sampleRow.unmapped]

\* the index of the last assignment to output[targetField]
LastWrite(written, targetField) ==
  CHOOSE i \in DOMAIN written :
    /\ written[i].targetField = targetField
    /\ \A j \in DOMAIN written :
         written[j].targetField = targetField => j <= i

\* mutant: the unmapped cells are copied to the output under their header
transformRow_WithUnmapped(row) ==
  LET direct == Values(row.direct)
      compound == Values(row.compound)
      items == Flatten([n \in DOMAIN compound |-> compound[n].extractions])
      written ==
        [n \in DOMAIN direct |->
           [targetField |-> direct[n].targetField,
            value |-> IF direct[n].value = "" THEN Null ELSE direct[n].value]]
        \o [j \in DOMAIN items |->
              [targetField |-> items[j].targetField,
               value |-> items[j].extractedValue]]
      fields == {written[i].targetField : i \in DOMAIN written}
  IN [t \in fields \cup DOMAIN row.unmapped |->
        IF t \in fields THEN written[LastWrite(written, t)].value
        ELSE row.unmapped[t]]

\* the assignments to output in order: the direct entries with
\* `value || null`, then the items of every compound entry; a later
\* assignment to the same target field replaces the earlier one
transformRow(row) ==
  LET direct == Values(row.direct)
      compound == Values(row.compound)
      items == Flatten([n \in DOMAIN compound |-> compound[n].extractions])
      written ==
        [n \in DOMAIN direct |->
           [targetField |-> direct[n].targetField,
            value |-> IF direct[n].value = "" THEN Null ELSE direct[n].value]]
        \o [j \in DOMAIN items |->
              [targetField |-> items[j].targetField,
               value |-> items[j].extractedValue]]
  IN [t \in {written[i].targetField : i \in DOMAIN written} |->
        written[LastWrite(written, t)].value]

toFinalOutput(result) ==
  [i \in DOMAIN result.data |-> transformRow(result.data[i])]

ExtractInit ==
  /\ now = 0
  /\ store = <<>>
  /\ created = {}
  /\ worker = [id \in OpIds |-> IdleWorker]
  /\ hist = [id \in OpIds |-> NoHist]
  /\ response = NoResponse
  /\ \E input \in ExtractInputs :
       call = [fn |-> "extract", input |-> input, done |-> FALSE,
               output |-> Undefined, finals |-> <<>>]

\* the part of extract after its awaits: buildExtractedData and the metadata
BuildResult ==
  /\ call.fn = "extract" /\ ~call.done
  /\ call' = [call EXCEPT
       !.done = TRUE,
       !.output = extractResult(call.input.normalizedData,
                                call.input.discoveryResult,
                                call.input.compoundResult,
                                call.input.compoundCallCount)]
  /\ UNCHANGED <<now, store, created, worker, hist, response>>

\* a caller flattens the result: toFinalOutput reads result.data and returns
\* fresh rows of strings and nulls; MapperService has no field and the call
\* assigns to nothing reachable from its argument
ToFinalOutput ==
  /\ call.fn = "extract" /\ call.done
  /\ Len(call.finals) < MaxApplications
  /\ call' = [call EXCEPT
       !.finals = Append(@, toFinalOutput(call.output.result))]
  /\ UNCHANGED <<now, store, created, worker, hist, response>>

ExtractNext == BuildResult \/ ToFinalOutput

ExtractSpec == ExtractInit /\ [][ExtractNext]_vars

\* ------------------------------------------------ the compound chunk loop
\* the characters of a compound prompt that do not depend on the rows (base
\* prompt, task text, field list, output instructions), and the characters
\* one row adds to the JSON of the extraction requests
PromptOverheads == {2000, 8000, 8004}
RowLengths == {4, 1600, 2400, 8004, 160000}

\* the length of buildCompoundPrompt(inputs) for inputs of that many rows
PromptLength(overhead, rowLength, rows) == overhead + rows * rowLength

\* Math.ceil(text.length / 4)
estimateTokenCount(length) == CeilDiv(length, 4)

\* inputs[].values of extractCompoundValues for a compound column
ValuesOf(n, c) == [i \in 1..n |-> [rowIndex |-> i - 1, value |-> CellText(i - 1, c)]]

ChunkInit ==
  /\ now = 0
  /\ store = <<>>
  /\ created = {}
  /\ worker = [id \in OpIds |-> IdleWorker]
  /\ hist = [id \in OpIds |-> NoHist]
  /\ response = NoResponse
  /\ \E n \in 0..MaxChunkRows, overhead \in PromptOverheads,
        rowLength \in RowLengths :
       call = [fn |-> "extractCompoundValues", pc |-> "estimate",
               rowCount |-> n, values |-> ValuesOf(n, 3),
               overhead |-> overhead, rowLength |-> rowLength,
               estimatedTokens |->
                 estimateTokenCount(PromptLength(overhead, rowLength, n)),
               chunkSize |-> 0,
               start |-> 0, calls |-> <<>>, llmCalls |-> 0]

\* lines 457-470: the single call, or the chunk size
BeginCompound ==
  /\ call.fn = "extractCompoundValues" /\ call.pc = "estimate"
  /\ call' = IF call.estimatedTokens <= TOKEN_THRESHOLD
             THEN [call EXCEPT !.pc = "done", !.calls = <<call.values>>,
                               !.llmCalls = @ + 1]
             ELSE [call EXCEPT !.pc = "loop", !.start = 0,
                     !.chunkSize = ChunkSize(call.rowCount, call.estimatedTokens)]
  /\ UNCHANGED <<now, store, created, worker, hist, response>>

\* lines 472-488: one pass of the for loop
ChunkIteration ==
  /\ call.fn = "extractCompoundValues" /\ call.pc = "loop"
  /\ call.start < call.rowCount
  /\ LET end == Min(call.start + call.chunkSize, call.rowCount)
     IN call' = [call EXCEPT
                   !.calls = Append(@, Slice(call.values, call.start, end)),
                   !.llmCalls = @ + 1,
                   !.start = @ + call.chunkSize]
  /\ UNCHANGED <<now, store, created, worker, hist, response>>

\* the loop condition fails: return llmCalls
ChunkReturn ==
  /\ call.fn = "extractCompoundValues" /\ call.pc = "loop"
  /\ ~(call.start < call.rowCount)
  /\ call' = [call EXCEPT !.pc = "done"]
  /\ UNCHANGED <<now, store, created, worker, hist, response>>

ChunkNext == BeginCompound \/ ChunkIteration \/ ChunkReturn

ChunkSpec == ChunkInit /\ [][ChunkNext]_vars

\* ------------------------------------------------------------ properties
IsTerminal(op) == op.status \in TerminalStatuses
Running(id) == worker[id].pc \in {"parsing", "discovery", "extraction"}
ErrorCodes == {"PARSE_ERROR", "LLM_ERROR", "UNSUPPORTED_FORMAT", "EXTRACTION_ERROR"}
Phases == {"parsing", "discovery", "extraction", "mapping"}

\* C1: once an operation's status is completed, failed or cancelled, no
\* later step of the worker or of a cancel request changes its status.
C1_TerminalAbsorbing ==
  [][\A id \in OpIds :
       (has(store, id) /\ has(store', id) /\ IsTerminal(store[id]))
         => store'[id].status = store[id].status]_vars

\* C2: a cancel that succeeds while the worker is between entering
\* processing and its last progress checkpoint, with no parser or LLM
\* failure, leaves the operation cancelled: complete() is never applied, the
\* operation never becomes completed and never gets a result.
C2_CancelRaceBound ==
  \A id \in OpIds :
    (hist[id].cancelInWindow /\ ~hist[id].raised)
      => /\ hist[id].completeCalls = 0
         /\ has(store, id) => /\ store[id].status = "cancelled"
                              /\ store[id].result = Undefined
                              /\ store[id].completedAt = NoTime

C2_Witness ==
  \E id \in OpIds :
    /\ hist[id].cancelInWindow /\ ~hist[id].raised
    /\ worker[id].pc = "done" /\ hist[id].inferCalls >= 1
    /\ has(store, id) /\ store[id].status = "cancelled"

\* C3: whenever an operation's status is terminal, exactly one of
\* completedAt, failedAt, cancelledAt is set, it is the one matching the
\* status, and it was stamped at the time of that transition.
MatchingStamp(op) ==
  CASE op.status = "completed" -> op.completedAt
    [] op.status = "failed" -> op.failedAt
    [] op.status = "cancelled" -> op.cancelledAt
    [] OTHER -> NoTime

TerminalStamps(op) ==
  {f \in {"completedAt", "failedAt", "cancelledAt"} : op[f] # NoTime}

C3_TimestampExclusive ==
  [][\A id \in OpIds :
       (has(store', id) /\ IsTerminal(store'[id]))
         => /\ Cardinality(TerminalStamps(store'[id])) = 1
            /\ MatchingStamp(store'[id]) # NoTime
            /\ (has(store, id) /\ store[id].status # store'[id].status)
                 => MatchingStamp(store'[id]) = now]_vars

\* C4: cancel (manager and controller) succeeds exactly when the operation
\* exists with status pending or processing, then sets status cancelled and
\* cancelledAt; on completed, failed or cancelled it is rejected with an
\* error and the record is unchanged; on an unknown id it is rejected with
\* NotFound; canCancel is true exactly when cancel would succeed.
C4_CancelLegal ==
  [][response'.kind \in {"cancel", "cancelOperation"} =>
       LET id == response'.id
           ok == response'.threw = "none"
       IN /\ ok <=> (has(store, id) /\ store[id].status \in {"pending", "processing"})
          /\ ok <=> canCancel(store, id)
          /\ ok => store' = [store EXCEPT ![id].status = "cancelled",
                                          ![id].cancelledAt = now]
          /\ ~ok => store' = store
          /\ ~has(store, id) => response'.threw = "NotFound"
          /\ (has(store, id) /\ IsTerminal(store[id])) =>
               response'.threw = IF response'.kind = "cancel"
                                 THEN "Error" ELSE "BadRequest"]_vars

C4_Witness ==
  /\ response.kind = "cancelOperation" /\ response.threw = "BadRequest"
  /\ has(store, response.id)
  /\ store[response.id].status = "completed"
  /\ store[response.id].result # Undefined

\* C5: if the operation was cancelled before the worker's run began, the
\* worker stops right after entering processing: no parser call, no LLM
\* call, no further mutation, and the final status is cancelled.
C5_FirstCheckpoint ==
  \A id \in OpIds :
    (hist[id].cancelBeforeRun /\ worker[id].pc # "idle")
      => /\ worker[id].pc = "done"
         /\ hist[id].parserCalls = 0 /\ hist[id].inferCalls = 0
         /\ has(store, id) => store[id].status = "cancelled"

\* C6: when the progress callback raises the cancellation sentinel the worker
\* swallows it: the run ends, the status is still cancelled, failedAt and
\* error are unset and fail() was never called.
C6_SentinelSwallowed ==
  \A id \in OpIds :
    hist[id].sentinel
      => /\ worker[id].pc = "done" /\ hist[id].outcome = "returned"
         /\ hist[id].failCalls = 0
         /\ has(store, id) => /\ store[id].status = "cancelled"
                              /\ store[id].failedAt = NoTime
                              /\ store[id].error = Undefined

C6_Witness ==
  \E id \in OpIds :
    /\ hist[id].sentinel /\ worker[id].pc = "done"
    /\ has(store, id) /\ store[id].status = "cancelled"
    /\ store[id].progress # Undefined /\ store[id].progress.phase = "extraction"

\* C7: every parser or orchestrator exception other than the sentinel, raised
\* while the operation still exists, ends the run normally (the promise never
\* rejects) with the operation failed, failedAt set and a structured error
\* {code, message, phase}; nothing is retried.
C7_FailureBecomesFailed ==
  \A id \in OpIds :
    /\ hist[id].outcome # "rejected"
    /\ hist[id].parserCalls <= 1
    /\ hist[id].raised
         => /\ worker[id].pc = "done" /\ hist[id].outcome = "returned"
            /\ hist[id].existedAtCatch => hist[id].failCalls = 1
            /\ (hist[id].existedAtCatch /\ has(store, id))
                 => /\ store[id].status = "failed"
                    /\ store[id].failedAt # NoTime
                    /\ store[id].error # Undefined
                    /\ store[id].error.code \in ErrorCodes
                    /\ store[id].error.message # ""
                    /\ store[id].error.phase \in Phases

C7_Witness ==
  \E id \in OpIds :
    /\ hist[id].raised /\ hist[id].existedAtCatch /\ hist[id].inferCalls = 2
    /\ has(store, id) /\ store[id].status = "failed"
    /\ store[id].error.phase = "extraction"

\* C8: once an operation id has been removed from the store nothing
\* re-inserts it or mutates a record; the worker's next step ends its run
\* silently, without calling fail().
C8_NoResurrection ==
  [][\A id \in created :
       ~has(store, id)
         => /\ ~has(store', id)
            /\ store' = store
            /\ worker'[id] # worker[id]
                 => /\ worker'[id].pc = "done"
                    /\ hist'[id].failCalls = hist[id].failCalls
                    /\ hist'[id].completeCalls = hist[id].completeCalls
                    /\ hist'[id].outcome = "returned"]_vars

C8_Witness ==
  \E id \in OpIds :
    /\ hist[id].removed /\ ~has(store, id)
    /\ worker[id].pc = "done" /\ hist[id].outcome = "returned"
    /\ hist[id].inferCalls >= 1 /\ ~hist[id].existedAtCatch
    /\ hist[id].failCalls = 0 /\ hist[id].completeCalls = 0

\* C9: result is present iff status is completed and error is present iff
\* status is failed, in the record and in the status read model.
C9_ResultErrorPresence ==
  \A id \in OpIds :
    has(store, id)
      => /\ store[id].result # Undefined <=> store[id].status = "completed"
         /\ store[id].error # Undefined <=> store[id].status = "failed"
         /\ getOperation(store, id).body.result # Undefined
              <=> store[id].status = "completed"
         /\ getOperation(store, id).body.error # Undefined
              <=> store[id].status = "failed"

C9_Witness ==
  /\ response.kind = "getOperation" /\ response.threw = "none"
  /\ response.body.status = "failed" /\ response.body.error # Undefined
  /\ response.body.result = Undefined
  /\ store[response.id].cancelledAt # NoTime

\* C10: with time advancing and the sweep running, every operation in the
\* store eventually is terminal or removed (get then reports NotFound); one
\* stuck in pending or processing is eventually evicted.
C10_NoHang ==
  \A id \in OpIds :
    has(store, id)
      ~> (get(store, id).threw = "NotFound" \/ IsTerminal(store[id]))

C10_Witness ==
  \E id \in OpIds :
    /\ hist[id].removed /\ get(store, id).threw = "NotFound"
    /\ Running(id)
    /\ response.kind = "cleanup" /\ response.cleaned = 1

\* C11: cleanupExpired removes exactly the records whose age, now minus
\* createdAt, is strictly greater than the TTL of their current status
\* (pending 30 min, processing 60 min, completed and failed 24 h, cancelled
\* 60 min), returns how many it removed and leaves every other record
\* present and unchanged; the time the status was entered plays no part.
C11_SweepExact ==
  [][response'.kind = "cleanup" =>
       LET ttl == [pending |-> 30, processing |-> 60, completed |-> 24 * 60,
                   failed |-> 24 * 60, cancelled |-> 60]
           gone == {k \in DOMAIN store :
                      now - store[k].createdAt > ttl[store[k].status]}
       IN /\ DOMAIN store' = DOMAIN store \ gone
          /\ \A k \in DOMAIN store' : store'[k] = store[k]
          /\ response'.cleaned = Cardinality(gone)]_vars

C11_Witness ==
  /\ response.kind = "cleanup" /\ response.cleaned = 1
  /\ Cardinality(created) = 2
  /\ \E k \in DOMAIN store :
       /\ store[k].status = "cancelled"
       /\ now - store[k].createdAt = 60
       /\ now - store[k].cancelledAt = 40

\* C12: after any sequence of updateProgress calls on an existing operation
\* each progress field holds the value of the most recent call that supplied
\* it, or the zeroed default (phase parsing, empty step, 0 rows, 0 total,
\* 0 percent) if no call did; a call leaves the fields it omits as they were.
C12_ProgressMerge ==
  [][call'.fn = "updateProgress" =>
       LET id == call'.id
           zeroed == [phase |-> "parsing", currentStep |-> "",
                      rowsProcessed |-> 0, totalRows |-> 0,
                      percentComplete |-> 0]
           before == store[id].progress
           after == store'[id].progress
       IN /\ response'.threw = "none"
          /\ after # Undefined
          /\ \A f \in ProgressFields :
               /\ after[f] = IF f \in DOMAIN call'.supplied
                             THEN call'.supplied[f] ELSE zeroed[f]
               /\ (f \notin DOMAIN call'.partial /\ before # Undefined)
                    => after[f] = before[f]]_vars

C12_Witness ==
  /\ call.fn = "updateProgress"
  /\ DOMAIN call.partial = {"percentComplete"}
  /\ "rowsProcessed" \notin DOMAIN call.supplied
  /\ store[call.id].progress # Undefined
  /\ store[call.id].progress.phase = "mapping"
  /\ store[call.id].progress.percentComplete = 50
  /\ store[call.id].progress.rowsProcessed = 0

\* C13: within one operation the progress phases written never go back
\* (parsing, discovery, optional extraction, mapping); the parser call comes
\* first, the discovery infer second, every compound infer after it; the
\* compound calls take the rows in ascending order, each beginning where
\* the previous one ended, and a call is issued only by the step that
\* handled the previous call's response.
C13_PhaseOrder ==
  /\ [](\A id \in OpIds :
         LET rank == [parsing |-> 1, discovery |-> 2, extraction |-> 3,
                      mapping |-> 4]
             phases == hist[id].phases
             calls == hist[id].calls
         IN /\ \A i, j \in DOMAIN phases :
                 i < j => rank[phases[i]] <= rank[phases[j]]
            /\ \A j \in DOMAIN calls :
                 /\ calls[j].call = "parser" <=> j = 1
                 /\ calls[j].call = "discovery" <=> j = 2
                 /\ calls[j].call = "compound" <=> j >= 3
                 /\ j = 3 => calls[j].start = 0
                 /\ j > 3 => /\ calls[j].start = calls[j - 1].end
                             /\ calls[j].start > calls[j - 1].start
            /\ calls # <<>> =>
                 rank[phases[Len(phases)]] >=
                   (IF Len(calls) = 1 THEN 1 ELSE IF Len(calls) = 2 THEN 2 ELSE 3))
  /\ [][\A id \in OpIds :
          Len(hist'[id].calls) > Len(hist[id].calls)
            => /\ Len(hist'[id].calls) = Len(hist[id].calls) + 1
               /\ worker'[id] # worker[id]
               /\ worker'[id].pc \in {"parsing", "discovery", "extraction"}
               /\ worker[id].pc \in
                    CASE Len(hist[id].calls) = 0 -> {"idle"}
                      [] Len(hist[id].calls) = 1 -> {"parsing"}
                      [] Len(hist[id].calls) = 2 -> {"discovery"}
                      [] OTHER -> {"extraction"}]_vars

C13_Witness ==
  \E id \in OpIds :
    /\ Len(hist[id].calls) = 4
    /\ hist[id].calls[4] = Call("compound", 1, 2)
    /\ hist[id].phases[Len(hist[id].phases)] = "mapping"
    /\ \E i \in DOMAIN hist[id].phases : hist[id].phases[i] = "extraction"
    /\ has(store, id) /\ store[id].status = "completed"

\* C14: for a dataset with rows.length = rowCount, sample returns its input
\* unchanged when rowCount <= 50 and otherwise the first 30 rows in order
\* with rowCount 30 and headers, columnCount, source and metadata unchanged;
\* the returned rowCount equals getSampleSize(rowCount), and
\* willSample(rowCount) is true exactly when rowCount > 50.
C14_SamplingBound ==
  call.fn = "sampler" =>
    LET data == call.input
        n == data.data.rowCount
        out == call.sampled
    IN /\ Len(data.data.rows) = n
       /\ "sample" \in call.done =>
            /\ n <= 50 => out = data
            /\ n > 50 => /\ out.data.rows = [i \in 1..30 |-> data.data.rows[i]]
                         /\ out.data.rowCount = 30
                         /\ out.data.headers = data.data.headers
                         /\ out.data.columnCount = data.data.columnCount
                         /\ out.source = data.source
                         /\ out.metadata = data.metadata
       /\ {"sample", "getSampleSize"} \subseteq call.done =>
            out.data.rowCount = call.sampleSize
       /\ "willSample" \in call.done => (call.willSample <=> n > 50)

C14_Witness ==
  /\ call.fn = "sampler"
  /\ call.done = {"sample", "getSampleSize", "willSample"}
  /\ call.input.data.rowCount = 51
  /\ Len(call.sampled.data.rows) = 30 /\ call.sampleSize = 30
  /\ call.sampled.data.rows[30] = call.input.data.rows[30]
  /\ call.willSample

\* C15: the extraction result covers the full, unsampled row set: result.data
\* has exactly one entry per input row, in input order, built from that
\* row's own values (also when more than 50 rows make discovery work on a
\* sample), and metadata.rowsProcessed equals the input rowCount.
C15_FullRowSet ==
  (call.fn = "extract" /\ call.done) =>
    LET data == call.input.normalizedData.data
        result == call.output.result
        Text(row, k) == IF k \in DOMAIN row THEN row[k] ELSE ""
    IN /\ Len(result.data) = data.rowCount
       /\ result.metadata.rowsProcessed = data.rowCount
       /\ \A i \in DOMAIN data.rows :
            LET out == result.data[i]
            IN /\ \A k \in DOMAIN out.direct :
                    out.direct[k].value = Text(data.rows[i], k)
               /\ \A k \in DOMAIN out.compound :
                    out.compound[k].sourceValue = Text(data.rows[i], k)
               /\ \A k \in DOMAIN out.unmapped :
                    out.unmapped[k] = Text(data.rows[i], k)

C15_Witness ==
  /\ call.fn = "extract" /\ call.done
  /\ call.input.normalizedData.data.rowCount = 51
  /\ call.output.discoveryPromptRows = 30
  /\ Len(call.output.result.data) = 51
  /\ "A" \in DOMAIN call.output.result.data[51].direct
  /\ call.output.result.data[51].direct["A"].value = "501"
  /\ "B" \in DOMAIN call.output.result.data[51].unmapped

\* C16: for every row index, compound source column and target field that
\* discovery listed for that column, if no entry of the compound responses
\* carries that (rowIndex, sourceColumn, targetField), the result row still
\* has an extraction for that target field, with extractedValue null and
\* confidence 0, and extract returns a result.
C16_NullForMissing ==
  (call.fn = "extract" /\ call.done) =>
    LET rows == call.input.normalizedData.data.rows
        columns == call.input.discoveryResult.compoundColumns
        answers == IF call.input.compoundResult = Undefined THEN <<>>
                   ELSE call.input.compoundResult.extractions
        Carried(rowIndex, column, field) ==
          \E a \in DOMAIN answers :
            /\ answers[a].rowIndex = rowIndex
            /\ answers[a].sourceColumn = column
            /\ \E f \in DOMAIN answers[a].fields :
                 answers[a].fields[f].field = field
    IN /\ call.output # Undefined
       /\ \A i \in DOMAIN rows, k \in DOMAIN columns :
            \A j \in DOMAIN columns[k].targetFields :
              ~Carried(i - 1, columns[k].sourceColumn, columns[k].targetFields[j])
                => LET items == call.output.result.data[i]
                                  .compound[columns[k].sourceColumn].extractions
                   IN \E x \in DOMAIN items :
                        /\ items[x].targetField = columns[k].targetFields[j]
                        /\ items[x].extractedValue = Null
                        /\ items[x].confidence = 0

C16_Witness ==
  /\ call.fn = "extract" /\ call.done
  /\ Len(call.output.result.data) = 2
  /\ "C" \in DOMAIN call.output.result.data[2].compound
  /\ LET items == call.output.result.data[2].compound["C"].extractions
     IN /\ Len(items) = 2
        /\ items[1].targetField = "f3" /\ items[1].confidence = 8
        /\ items[2].targetField = "f4" /\ items[2].extractedValue = Null
        /\ items[2].confidence = 0

\* C17: when the all-rows prompt is estimated at no more than 4000 tokens
\* exactly one compound call carries all rows; otherwise, with chunkSize =
\* ceil(rowCount / ceil(estimatedTokens / 4000)), the calls carry contiguous
\* row ranges of that size (the last possibly smaller), every row index
\* 0..rowCount-1 goes out in exactly one call with its original rowIndex,
\* and the loop terminates for every rowCount >= 0 (each pass moves start
\* strictly closer to rowCount).
C17_ChunkPartition ==
  /\ [](call.fn = "extractCompoundValues" /\ call.pc = "done" =>
         LET n == call.rowCount
             chunks == (call.estimatedTokens + 3999) \div 4000
             size == (n + chunks - 1) \div chunks
             calls == call.calls
         IN /\ call.estimatedTokens <= 4000 =>
                 Len(calls) = 1 /\ calls[1] = call.values
            /\ call.estimatedTokens > 4000 =>
                 /\ \A c \in DOMAIN calls :
                      /\ c < Len(calls) => Len(calls[c]) = size
                      /\ c = Len(calls) => Len(calls[c]) \in 1..size
                 /\ Flatten(calls) = call.values
            /\ \A i \in 0..(n - 1) :
                 Cardinality({<<c, x>> \in (DOMAIN calls) \X (1..MaxChunkRows) :
                                /\ x \in DOMAIN calls[c]
                                /\ calls[c][x].rowIndex = i}) = 1
            /\ call.llmCalls = Len(calls))
  /\ [][(call.fn = "extractCompoundValues" /\ call.pc = "loop"
          /\ call'.pc = "loop")
          => /\ call.start < call.rowCount
             /\ call'.start > call.start
             /\ call'.start < call.rowCount + call.chunkSize]_vars

C17_Witness ==
  /\ call.fn = "extractCompoundValues" /\ call.pc = "done"
  /\ call.rowCount = 10 /\ call.estimatedTokens = 8001
  /\ Len(call.calls) = 3
  /\ Len(call.calls[1]) = 4 /\ Len(call.calls[3]) = 2
  /\ call.calls[3][1].rowIndex = 8

\* C18: the llmCalls of the result equals the number of infer calls made
\* during extract: exactly 1 when discovery reports no compound columns, and
\* 1 plus the number of compound calls (one per chunk) otherwise.
C18_LlmCallCount ==
  \A id \in OpIds :
    hist[id].completeCalls = 1 =>
      LET compoundCalls == {j \in DOMAIN hist[id].calls :
                              hist[id].calls[j].call = "compound"}
      IN /\ worker[id].llmCalls = hist[id].inferCalls
         /\ ~worker[id].compound => worker[id].llmCalls = 1
         /\ worker[id].compound =>
              worker[id].llmCalls = 1 + Cardinality(compoundCalls)
         /\ (has(store, id) /\ store[id].result # Undefined)
              => store[id].result.llmCalls = hist[id].inferCalls

C18_Witness ==
  \E id \in OpIds :
    /\ hist[id].completeCalls = 1 /\ worker[id].compound
    /\ has(store, id) /\ store[id].status = "completed"
    /\ store[id].result.llmCalls = 3 /\ hist[id].inferCalls = 3

\* C19: in every result row the keys of unmapped are exactly the headers
\* that are neither the sourceColumn of a direct mapping nor a compound
\* column, so every header is a key of direct, compound or unmapped and no
\* unmapped key is a direct or compound key; the unmappedColumns of the
\* summary is that same set of headers.
C19_UnmappedColumns ==
  (call.fn = "extract" /\ call.done) =>
    LET headers == call.input.normalizedData.data.headers
        discovery == call.input.discoveryResult
        result == call.output.result
        all == {headers[i] : i \in DOMAIN headers}
        claimed ==
          {discovery.directMappings[i].sourceColumn :
             i \in DOMAIN discovery.directMappings}
          \cup {discovery.compoundColumns[i].sourceColumn :
                  i \in DOMAIN discovery.compoundColumns}
        listed == result.metadata.extractionSummary.unmappedColumns
    IN /\ \A i \in DOMAIN result.data :
            LET row == result.data[i]
            IN /\ DOMAIN row.unmapped = all \ claimed
               /\ all \subseteq DOMAIN row.direct \cup DOMAIN row.compound
                                  \cup DOMAIN row.unmapped
               /\ DOMAIN row.unmapped
                    \cap (DOMAIN row.direct \cup DOMAIN row.compound) = {}
       /\ {listed[i] : i \in DOMAIN listed} = all \ claimed

C19_Witness ==
  /\ call.fn = "extract" /\ call.done
  /\ Len(call.output.result.data) = 2
  /\ DOMAIN call.output.result.data[2].direct = {"Z"}
  /\ DOMAIN call.output.result.data[2].compound = {"C"}
  /\ DOMAIN call.output.result.data[2].unmapped = {"A", "B"}
  /\ call.output.result.metadata.extractionSummary.unmappedColumns = <<"A", "B">>

\* C20: the averageConfidence of the summary is the mean over every direct
\* entry and every compound extraction item present in result.data: the
\* values extract averages are exactly those values (so it agrees with
\* getExtractionStats(result).averageConfidence), and it is 0 when there
\* are none.
C20_AverageConfidence ==
  (call.fn = "extract" /\ call.done) =>
    LET result == call.output.result
        averaged == call.output.allConfidences
        present == StatsConfidences(result)
        Count(seq, v) == Cardinality({i \in DOMAIN seq : seq[i] = v})
    IN /\ \A v \in 0..10 : Count(averaged, v) = Count(present, v)
       /\ result.metadata.extractionSummary.averageConfidence
            = getExtractionStats(result).averageConfidence
       /\ present = <<>>
            => result.metadata.extractionSummary.averageConfidence = 0

\* C21: all rows of result.data have the same keys in direct, the same keys
\* in compound with the same target fields in the same order under each
\* compound column, and the same keys in unmapped; what getMappedFields,
\* getSourceColumns and the counts of getExtractionStats read from row 0 is
\* what they would read from any other row.
C21_RowUniformity ==
  (call.fn = "extract" /\ call.done) =>
    LET result == call.output.result
        TargetFields(row, k) ==
          [j \in DOMAIN row.compound[k].extractions |->
             row.compound[k].extractions[j].targetField]
        Only(i) == [result EXCEPT !.data = <<result.data[i]>>]
    IN \A i \in DOMAIN result.data :
         LET first == result.data[1]
             row == result.data[i]
         IN /\ DOMAIN row.direct = DOMAIN first.direct
            /\ DOMAIN row.compound = DOMAIN first.compound
            /\ DOMAIN row.unmapped = DOMAIN first.unmapped
            /\ \A k \in DOMAIN row.compound :
                 TargetFields(row, k) = TargetFields(first, k)
            /\ getMappedFields(Only(i)) = getMappedFields(result)
            /\ getSourceColumns(Only(i)) = getSourceColumns(result)
            /\ getExtractionStats(Only(i)).directMappings
                 = getExtractionStats(result).directMappings
            /\ getExtractionStats(Only(i)).compoundExtractions
                 = getExtractionStats(result).compoundExtractions

C21_Witness ==
  /\ call.fn = "extract" /\ call.done
  /\ Len(call.output.result.data) = 2
  /\ call.input.shape = "omitRow"
  /\ getSourceColumns(call.output.result)
       = [direct |-> {"A"}, compound |-> {"C"}, unmapped |-> {"B"}]
  /\ getMappedFields(call.output.result) = {"f1", "f3", "f4"}
  /\ call.output.result.data[1].unmapped["B"]
       # call.output.result.data[2].unmapped["B"]
  /\ call.output.result.data[1].compound["C"].extractions[1].extractedValue = Null

C24_LlmErrorCode ==
  \A id \in OpIds :
    (hist[id].raised /\ has(store, id) /\ store[id].status = "failed"
       /\ store[id].error # Undefined)
      => /\ hist[id].error \in InferErrors \cup DiscoveryParseErrors
                                  \cup CompoundParseErrors
              => store[id].error.code = "LLM_ERROR"
         /\ hist[id].error \in ParserErrors
              => store[id].error.code = "PARSE_ERROR"

\* C25: when the worker fails an operation, error.phase is the phase of the
\* last progress update written to the operation before the failure: parsing
\* for a failure of the parser call, discovery for one of the discovery
\* call, extraction for one of a compound call; error.code is one of
\* PARSE_ERROR, LLM_ERROR, UNSUPPORTED_FORMAT, EXTRACTION_ERROR, the first
\* in that order whose keywords the message contains.
C25_ErrorPhaseAndCode ==
  \A id \in OpIds :
    (hist[id].failCalls > 0 /\ has(store, id) /\ store[id].error # Undefined)
      => LET phases == hist[id].phases
             calls == hist[id].calls
             failed == calls[Len(calls)].call
             kw == Keywords(hist[id].error.message)
             error == store[id].error
         IN /\ phases # <<>> /\ calls # <<>>
            /\ error.phase = phases[Len(phases)]
            /\ store[id].progress # Undefined
            /\ error.phase = store[id].progress.phase
            /\ failed = "parser" => error.phase = "parsing"
            /\ failed = "discovery" => error.phase = "discovery"
            /\ failed = "compound" => error.phase = "extraction"
            /\ error.code \in ErrorCodes
            /\ error.code = "PARSE_ERROR" <=> kw \cap {"parse", "sheet"} # {}
            /\ error.code = "LLM_ERROR" <=>
                 /\ kw \cap {"parse", "sheet"} = {}
                 /\ kw \cap {"llm", "bedrock", "inference"} # {}
            /\ error.code = "UNSUPPORTED_FORMAT" <=>
                 /\ kw \cap {"parse", "sheet", "llm", "bedrock", "inference"} = {}
                 /\ kw \cap {"unsupported", "format"} # {}
            /\ error.message = hist[id].error.message

C25_Witness ==
  \E id \in OpIds :
    /\ hist[id].failCalls = 1 /\ has(store, id) /\ store[id].status = "failed"
    /\ hist[id].error.message = "LLM inference failed: Unsupported provider"
    /\ store[id].error.code = "LLM_ERROR"
    /\ store[id].error.phase = "extraction"
    /\ Len(hist[id].calls) = 4

\* C26: once a cancel has succeeded on an operation whose worker is running,
\* the worker starts no further parser or LLM call for it; the cancel step
\* itself only writes the record and leaves the worker, and the call it has
\* in flight, as they were.
C26_CancelStopsCalls ==
  [][\A id \in OpIds :
       /\ hist[id].cancelInWindow
            => /\ hist'[id].calls = hist[id].calls
               /\ hist'[id].parserCalls = hist[id].parserCalls
               /\ hist'[id].inferCalls = hist[id].inferCalls
               /\ worker'[id].pc \in {worker[id].pc, "done"}
       /\ (hist'[id].cancelInWindow /\ ~hist[id].cancelInWindow)
            => /\ response'.kind \in {"cancel", "cancelOperation"}
               /\ worker'[id] = worker[id]
               /\ Running(id)
               /\ hist'[id].calls = hist[id].calls
               /\ store'[id].status = "cancelled"]_vars

C26_Witness ==
  \E id \in OpIds :
    /\ hist[id].cancelInWindow /\ hist[id].sentinel
    /\ worker[id].pc = "done" /\ worker[id].chunked
    /\ worker[id].start + worker[id].chunkSize < worker[id].rowCount
    /\ Len(hist[id].calls) = 3 /\ hist[id].inferCalls = 2
    /\ has(store, id) /\ store[id].status = "cancelled"

\* C27: whenever the compound pass is split into chunks, the estimated
\* token count of every chunk prompt sent to the LLM is at most 4000,
\* whatever the row count, the fixed size of a prompt and the size of a row.
C27_ChunkTokenBudget ==
  (call.fn = "extractCompoundValues" /\ call.estimatedTokens > TOKEN_THRESHOLD)
    => \A j \in DOMAIN call.calls :
         estimateTokenCount(PromptLength(call.overhead, call.rowLength,
                                         Len(call.calls[j]))) <= 4000

\* C28: updateProgress changes only the progress field: on an existing
\* operation of any status it leaves status, every timestamp, result, error
\* and the request payload as they were (a cancelled operation stays
\* cancelled) and touches no other record; on an unknown id it raises
\* NotFound and changes nothing.
C28_ProgressFrame ==
  [][response'.kind = "updateProgress" =>
       LET id == response'.id
       IN /\ DOMAIN store' = DOMAIN store
          /\ \A k \in DOMAIN store : k # id => store'[k] = store[k]
          /\ has(store, id) =>
               /\ response'.threw = "none"
               /\ DOMAIN store'[id] = DOMAIN store[id]
               /\ \A f \in DOMAIN store[id] \ {"progress"} :
                    store'[id][f] = store[id][f]
               /\ store'[id].progress # Undefined
          /\ ~has(store, id) =>
               /\ response'.threw = "NotFound"
               /\ store' = store]_vars

C28_Witness ==
  /\ response.kind = "updateProgress" /\ response.threw = "none"
  /\ has(store, response.id)
  /\ store[response.id].status = "cancelled"
  /\ store[response.id].cancelledAt # NoTime
  /\ store[response.id].startedAt # NoTime
  /\ store[response.id].progress # Undefined
  /\ store[response.id].progress.phase = "extraction"
  /\ store[response.id].progress.percentComplete = 60
  /\ store[response.id].filename = "data.csv"
  /\ \E k \in DOMAIN store : k # response.id /\ store[k].status = "completed"

\* C29: for a dataset of at least one row, the percentComplete values written
\* during one run of the worker never decrease and stay within 0..100: 0 in
\* parsing, 5, 10 or 30 in discovery, 35 to 85 in extraction, 90 or 100 in
\* mapping; and percentComplete is 100 whenever the status is completed.
C29_PercentMonotone ==
  \A id \in OpIds :
    LET percents == hist[id].percents
        phases == hist[id].phases
    IN /\ (worker[id].rowCount >= 1 \/ Len(percents) <= 1) =>
            /\ Len(phases) = Len(percents)
            /\ \A i \in DOMAIN percents :
                 /\ percents[i] \in 0..100
                 /\ phases[i] = "parsing" => percents[i] = 0
                 /\ phases[i] = "discovery" => percents[i] \in {5, 10, 30}
                 /\ phases[i] = "extraction" => percents[i] \in 35..85
                 /\ phases[i] = "mapping" => percents[i] \in {90, 100}
            /\ \A i, j \in DOMAIN percents :
                 i < j => percents[i] <= percents[j]
       /\ (has(store, id) /\ store[id].status = "completed") =>
            /\ store[id].progress # Undefined
            /\ store[id].progress.percentComplete = 100

C29_Witness ==
  \E id \in OpIds :
    /\ has(store, id) /\ store[id].status = "completed"
    /\ worker[id].rowCount = 2 /\ worker[id].chunked
    /\ hist[id].percents = <<0, 5, 10, 30, 35, 60, 85, 90, 100, 100>>
    /\ store[id].progress.percentComplete = 100

\* C30: every target field that is a key of directMappings or is listed
\* under a compound column is a key of every row of toFinalOutput applied to
\* the result of extract, and the directMappings count of the summary is the
\* number of direct entries of each result row, also when two target fields
\* are mapped to the same source column.
C30_NoFieldDropped ==
  (call.fn = "extract" /\ call.finals # <<>>) =>
    LET discovery == call.input.discoveryResult
        result == call.output.result
        output == call.finals[1]
        discovered ==
          {discovery.directMappings[m].targetField :
             m \in DOMAIN discovery.directMappings}
          \cup UNION {{discovery.compoundColumns[k].targetFields[j] :
                         j \in DOMAIN discovery.compoundColumns[k].targetFields} :
                      k \in DOMAIN discovery.compoundColumns}
    IN \A i \in DOMAIN output :
         /\ discovered \subseteq DOMAIN output[i]
         /\ result.metadata.extractionSummary.directMappings
              = Cardinality(DOMAIN result.data[i].direct)

====
